---- MODULE Spec2Model ----
(***************************************************************************)
(* Model of src/src/app.component.ts (AppComponent): the interest          *)
(* calculator's input signals, the delayed calculation, the bounded        *)
(* history and its persistence in localStorage['interestCalcHistory'].     *)
(*                                                                         *)
(* Execution model.  The component runs on the browser's single thread.    *)
(* Every DOM event handler and every timer callback is one atomic step.    *)
(* The save effect registered in the constructor does not run inside the   *)
(* handler that changes calculationHistory: the signal write only marks    *)
(* the effect dirty (effectDirty) and the framework runs it afterwards,    *)
(* before the next event handler or timer callback is dispatched.  At      *)
(* startup the first run of the effect and the afterNextRender callback    *)
(* are both pending, and the framework version decides which runs first;   *)
(* the model allows both orders.                                           *)
(*                                                                         *)
(* Numbers.  A JavaScript number is modelled as an exact rational          *)
(* [k |-> "num", n, d], as Infinity once a result exceeds MaxFinite (the   *)
(* model's stand-in for Number.MAX_VALUE), or as a term [k, l, r] built    *)
(* on Math.pow, which is left uninterpreted.  null is [k |-> "null"].      *)
(***************************************************************************)
EXTENDS Integers, Sequences, FiniteSets, TLC

VARIABLES
    principal,            \* signal<number | null>
    rate,                 \* signal<number | null>
    time,                 \* signal<number | null>
    timeUnit,             \* signal<'years' | 'months'>
    compoundFrequency,    \* signal<number>
    isLoading,            \* signal<boolean>
    activeTooltip,        \* signal<string | null>, "none" for null
    calculationResult,    \* signal<CalculationResult | null>: <<>> or <<r>>
    calculationHistory,   \* signal: the JS value held, [isArray, items]
    interestCalcHistory,  \* localStorage item of that key (a text)
    storageMode,          \* how localStorage behaves in this session
    effectDirty,          \* the save effect is scheduled and has not run
    renderPending,        \* the afterNextRender callback has not run
    timeouts,             \* pending setTimeout callbacks, in firing order
    timersSet,            \* number of setTimeout calls made so far
    now,                  \* Date.now(), relative to the session start
    uncaught,             \* last exception that escaped a callback
    bootItem,             \* history variable: the item at construction
    base,                 \* history variable: history at last load/clear
    recorded,             \* history variable: results recorded since
    staleTimers           \* history variable: pending callbacks whose
                          \* calculate was invoked before the last reset

vars == <<principal, rate, time, timeUnit, compoundFrequency, isLoading,
          activeTooltip, calculationResult, calculationHistory,
          interestCalcHistory, storageMode, effectDirty, renderPending,
          timeouts, timersSet, now, uncaught, bootItem, base, recorded,
          staleTimers>>

inputs == <<principal, rate, time, timeUnit, compoundFrequency>>
store == <<calculationHistory, interestCalcHistory, effectDirty, base, recorded>>
env == <<storageMode, bootItem>>

-----------------------------------------------------------------------------
(* Bounds of the model *)

MaxFinite == 1000000      \* results above this overflow to Infinity
MaxNow == 1               \* Date.now() takes the values 0..MaxNow
MaxTimers == 2            \* setTimeout calls per run of Spec
MaxPending == 2           \* timer callbacks pending at once
MaxRecords == 12          \* setTimeout calls per run of SpecRecords
MaxStored == 11           \* longest array a previous session left stored

(* Program constants *)

DefaultPrincipal == 10000
DefaultRate == 5
DefaultTime == 10
DefaultFrequency == 1
KeepPrevious == 9         \* history.slice(0, 9)
MonthsPerYear == 12
Percent == 100

-----------------------------------------------------------------------------
(* JavaScript numbers *)

RECURSIVE GCD(_, _)
GCD(a, b) == IF b = 0 THEN a ELSE GCD(b, a % b)

Abs(x) == IF x < 0 THEN -x ELSE x
Min(a, b) == IF a < b THEN a ELSE b

Null == [k |-> "null"]
Infinity == [k |-> "inf"]

\* the number n/d (d > 0) as the double holding it
Num(n, d) ==
    IF n > MaxFinite * d THEN Infinity
    ELSE LET g == GCD(Abs(n), d)
         IN  IF g = 0 THEN [k |-> "num", n |-> 0, d |-> 1]
             ELSE [k |-> "num", n |-> n \div g, d |-> d \div g]

N(i) == Num(i, 1)

IsNum(x) == x.k = "num"

\* x <= 0 for a number x
Le0(x) == IsNum(x) /\ x.n <= 0

\* a * b, a / b, a + b, a - b on non-negative operands
Mul(a, b) ==
    IF IsNum(a) /\ IsNum(b) THEN Num(a.n * b.n, a.d * b.d)
    ELSE IF a.k = "inf" \/ b.k = "inf" THEN Infinity
    ELSE [k |-> "mul", l |-> a, r |-> b]

Div(a, b) ==
    IF IsNum(a) /\ IsNum(b) THEN Num(a.n * b.d, a.d * b.n)
    ELSE IF a.k = "inf" THEN Infinity
    ELSE [k |-> "div", l |-> a, r |-> b]

Add(a, b) ==
    IF IsNum(a) /\ IsNum(b) THEN Num(a.n * b.d + b.n * a.d, a.d * b.d)
    ELSE IF a.k = "inf" \/ b.k = "inf" THEN Infinity
    ELSE [k |-> "add", l |-> a, r |-> b]

Sub(a, b) ==
    IF IsNum(a) /\ IsNum(b) THEN Num(a.n * b.d - b.n * a.d, a.d * b.d)
    ELSE IF a.k = "inf" THEN Infinity
    ELSE [k |-> "sub", l |-> a, r |-> b]

\* Math.pow(a, b): uninterpreted
Pow(a, b) == [k |-> "pow", l |-> a, r |-> b]

-----------------------------------------------------------------------------
(* The interest engine: the body of calculate's timer callback *)

\* mutant of Accepts: < 0 for <= 0
AcceptsZero(p, r, t) ==
    ~(p = Null \/ r = Null \/ t = Null
        \/ (IsNum(p) /\ p.n < 0) \/ (IsNum(r) /\ r.n < 0)
        \/ (IsNum(t) /\ t.n < 0))

\* line 110: the inputs calculate goes on with
Accepts(p, r, t) ==
    ~(p = Null \/ r = Null \/ t = Null \/ Le0(p) \/ Le0(r) \/ Le0(t))

TimeInYears(t, unit) == IF unit = "years" THEN t ELSE Div(t, N(MonthsPerYear))

RateDecimal(r) == Div(r, N(Percent))

\* mutant of SimpleInterest: the time is taken as years whatever the unit
SimpleInterestInYears(p, r, t, unit) == Mul(Mul(p, RateDecimal(r)), t)

SimpleInterest(p, r, t, unit) ==
    Mul(Mul(p, RateDecimal(r)), TimeInYears(t, unit))

TotalSimple(p, r, t, unit) == Add(p, SimpleInterest(p, r, t, unit))

\* mutant of TotalCompound: the rate is not divided by the frequency
TotalCompoundAnnualBase(p, r, t, unit, n) ==
    IF n > 0
    THEN Mul(p, Pow(Add(N(1), RateDecimal(r)),
                    Mul(N(n), TimeInYears(t, unit))))
    ELSE Add(p, SimpleInterest(p, r, t, unit))

TotalCompound(p, r, t, unit, n) ==
    IF n > 0
    THEN Mul(p, Pow(Add(N(1), Div(RateDecimal(r), N(n))),
                    Mul(N(n), TimeInYears(t, unit))))
    ELSE Add(p, SimpleInterest(p, r, t, unit))

CompoundInterest(p, r, t, unit, n) ==
    IF n > 0 THEN Sub(TotalCompound(p, r, t, unit, n), p) ELSE N(0)

\* lines 137-147: p, r, t, n are the values calculate captured; unit is
\* this.timeUnit() and ts is Date.now(), both read when the timer fires
Result(p, r, t, n, unit, ts) ==
    [principal |-> p,
     rate |-> r,
     time |-> t,
     timeUnit |-> unit,
     compoundFrequency |-> n,
     simpleInterest |-> SimpleInterest(p, r, t, unit),
     compoundDetail |-> [interest |-> CompoundInterest(p, r, t, unit, n),
                         total |-> TotalCompound(p, r, t, unit, n)],
     totalSimple |-> TotalSimple(p, r, t, unit),
     timestamp |-> ts]

-----------------------------------------------------------------------------
(* JSON.stringify and JSON.parse on the values the history signal holds *)

\* a JS value the history signal can hold: an array, or (after loading a
\* stored JSON text that is no array) the object {}
Array(items) == [isArray |-> TRUE, items |-> items]
EmptyObject == [isArray |-> FALSE, items |-> <<>>]

\* JSON has no Infinity: JSON.stringify writes null for it
JsonNumber(x) == IF x.k = "inf" THEN Null ELSE x

JsonResult(res) ==
    [principal |-> JsonNumber(res.principal),
     rate |-> JsonNumber(res.rate),
     time |-> JsonNumber(res.time),
     timeUnit |-> res.timeUnit,
     compoundFrequency |-> res.compoundFrequency,
     simpleInterest |-> JsonNumber(res.simpleInterest),
     compoundDetail |-> [interest |-> JsonNumber(res.compoundDetail.interest),
                         total |-> JsonNumber(res.compoundDetail.total)],
     totalSimple |-> JsonNumber(res.totalSimple),
     timestamp |-> res.timestamp]

RECURSIVE JsonItems(_)
JsonItems(items) ==
    IF items = <<>> THEN <<>>
    ELSE <<JsonResult(Head(items))>> \o JsonItems(Tail(items))

\* the texts a localStorage item is modelled to hold
NoItem == [t |-> "absent", isArray |-> FALSE, items |-> <<>>]
EmptyText == [t |-> "empty", isArray |-> FALSE, items |-> <<>>]
Garbage == [t |-> "garbage", isArray |-> FALSE, items |-> <<>>]
JsonText(isArray, items) == [t |-> "json", isArray |-> isArray, items |-> items]

Stringify(value) ==
    IF value.isArray THEN JsonText(TRUE, JsonItems(value.items))
    ELSE JsonText(FALSE, <<>>)

\* JSON.parse of a text that parses
Parse(text) == [isArray |-> text.isArray, items |-> text.items]

\* what an earlier session can have left stored: its i-th newest result
OldResult(i) ==
    Result(N(DefaultPrincipal), N(DefaultRate), N(DefaultTime), 0, "years", -i)

StoredText(len) == Stringify(Array([i \in 1..len |-> OldResult(i)]))

StoredLengths == {0, 1, KeepPrevious + 1, MaxStored}

BootItems ==
    {NoItem, EmptyText, Garbage, JsonText(FALSE, <<>>)}
        \cup {StoredText(len) : len \in StoredLengths}

-----------------------------------------------------------------------------
(* What the environment supplies *)

\* "ok": reads and writes work; "quota": setItem throws; "denied": every
\* access to localStorage throws
StorageModes == {"ok", "quota", "denied"}

\* valueAsNumber of the number inputs; Null stands for NaN (lines 83, 88, 93)
PrincipalEntries == {Null, N(0), N(1000), N(900000)}
RateEntries == {Null, N(-1), N(12)}
TimeEntries == {Null, N(0), N(6)}
\* the values of the frequency select (line 29)
FrequencyOptions == {0, 1, 4}
TimeUnits == {"years", "months"}
TooltipFields == {"principal"}

-----------------------------------------------------------------------------
(* Construction: lines 25-37 and 54-67 *)

\* the component as constructed, in a session whose localStorage behaves
\* as one of modes and holds one of items
Constructed(modes, items) ==
    /\ isLoading = FALSE
    /\ activeTooltip = "none"
    /\ calculationResult = <<>>
    /\ calculationHistory = Array(<<>>)
    /\ storageMode \in modes
    /\ interestCalcHistory \in
           IF storageMode = "denied" THEN {NoItem} ELSE items
    /\ effectDirty = TRUE
    /\ renderPending = TRUE
    /\ timeouts = <<>>
    /\ timersSet = 0
    /\ now = 0
    /\ uncaught = "none"
    /\ bootItem = interestCalcHistory
    /\ base = Array(<<>>)
    /\ recorded = <<>>
    /\ staleTimers = 0

Defaults ==
    /\ principal = N(DefaultPrincipal)
    /\ rate = N(DefaultRate)
    /\ time = N(DefaultTime)
    /\ timeUnit = "years"
    /\ compoundFrequency = DefaultFrequency

\* a session with working storage that finds one stored result
Init == Defaults /\ Constructed({"ok"}, {StoredText(1)})

InitStore == Defaults /\ Constructed(StorageModes, BootItems)

\* the inputs as the user may have set them before calculate is invoked
InitEngine ==
    /\ principal \in PrincipalEntries \cup {N(DefaultPrincipal)}
    /\ rate \in RateEntries \cup {N(DefaultRate)}
    /\ time \in TimeEntries \cup {N(DefaultTime)}
    /\ timeUnit \in TimeUnits
    /\ compoundFrequency \in FrequencyOptions
    /\ Constructed({"ok"}, {NoItem})

\* no callback of the framework is pending: handlers and timers may run
Idle == ~renderPending /\ ~effectDirty

-----------------------------------------------------------------------------
(* The save effect, lines 60-66 *)

\* mutant of SaveEffect: an empty history is not written
SaveEffectSkipsEmpty ==
    /\ effectDirty
    /\ effectDirty' = FALSE
    /\ interestCalcHistory' =
           IF storageMode = "ok" /\ calculationHistory.items # <<>>
           THEN Stringify(calculationHistory)
           ELSE interestCalcHistory
    /\ UNCHANGED <<inputs, isLoading, activeTooltip, calculationResult,
                   calculationHistory, storageMode, renderPending, timeouts,
                   timersSet, staleTimers, now, uncaught, bootItem, base, recorded>>

\* mutant of SaveEffect: no try/catch around setItem
SaveEffectThrows ==
    /\ effectDirty
    /\ effectDirty' = FALSE
    /\ interestCalcHistory' =
           IF storageMode = "ok" THEN Stringify(calculationHistory)
           ELSE interestCalcHistory
    /\ uncaught' = IF storageMode = "ok" THEN uncaught ELSE "QuotaExceededError"
    /\ UNCHANGED <<inputs, isLoading, activeTooltip, calculationResult,
                   calculationHistory, storageMode, renderPending, timeouts,
                   timersSet, staleTimers, now, bootItem, base, recorded>>

SaveEffect ==
    /\ effectDirty
    /\ effectDirty' = FALSE
    /\ interestCalcHistory' =
           IF storageMode = "ok" THEN Stringify(calculationHistory)
           ELSE interestCalcHistory        \* setItem threw; caught, logged
    /\ UNCHANGED <<inputs, isLoading, activeTooltip, calculationResult,
                   calculationHistory, storageMode, renderPending, timeouts,
                   timersSet, staleTimers, now, uncaught, bootItem, base, recorded>>

(* loadHistoryFromStorage, lines 69-79, run by afterNextRender *)

\* the value loadHistoryFromStorage sets the history to; <<>> when it sets
\* nothing
Loaded(mode, item) ==
    IF mode = "denied" THEN <<Array(<<>>)>>             \* getItem threw
    ELSE IF item.t \in {"absent", "empty"} THEN <<>>    \* falsy
    ELSE IF item.t = "garbage" THEN <<Array(<<>>)>>     \* JSON.parse threw
    ELSE <<Parse(item)>>

LoadHistoryFromStorage ==
    /\ renderPending
    /\ renderPending' = FALSE
    /\ LET got == Loaded(storageMode, interestCalcHistory)
       IN  IF got = <<>>
           THEN UNCHANGED <<calculationHistory, effectDirty, base, recorded>>
           ELSE /\ calculationHistory' = got[1]
                /\ effectDirty' = TRUE
                /\ base' = got[1]
                /\ recorded' = <<>>
    /\ UNCHANGED <<inputs, isLoading, activeTooltip, calculationResult,
                   interestCalcHistory, storageMode, timeouts, timersSet, staleTimers, now,
                   uncaught, bootItem>>

-----------------------------------------------------------------------------
(* Input handlers, lines 81-102 *)

OnPrincipalChange(entries) ==
    /\ Idle
    /\ \E v \in entries : principal' = v
    /\ UNCHANGED <<rate, time, timeUnit, compoundFrequency, isLoading,
                   activeTooltip, calculationResult, store, env, renderPending,
                   timeouts, timersSet, staleTimers, now, uncaught>>

OnRateChange(entries) ==
    /\ Idle
    /\ \E v \in entries : rate' = v
    /\ UNCHANGED <<principal, time, timeUnit, compoundFrequency, isLoading,
                   activeTooltip, calculationResult, store, env, renderPending,
                   timeouts, timersSet, staleTimers, now, uncaught>>

OnTimeChange(entries) ==
    /\ Idle
    /\ \E v \in entries : time' = v
    /\ UNCHANGED <<principal, rate, timeUnit, compoundFrequency, isLoading,
                   activeTooltip, calculationResult, store, env, renderPending,
                   timeouts, timersSet, staleTimers, now, uncaught>>

OnFrequencyChange(entries) ==
    /\ Idle
    /\ \E v \in entries : compoundFrequency' = v
    /\ UNCHANGED <<principal, rate, time, timeUnit, isLoading, activeTooltip,
                   calculationResult, store, env, renderPending, timeouts,
                   timersSet, staleTimers, now, uncaught>>

ToggleTimeUnit ==
    /\ Idle
    /\ timeUnit' = IF timeUnit = "years" THEN "months" ELSE "years"
    /\ UNCHANGED <<principal, rate, time, compoundFrequency, isLoading,
                   activeTooltip, calculationResult, store, env, renderPending,
                   timeouts, timersSet, staleTimers, now, uncaught>>

-----------------------------------------------------------------------------
(* calculate, lines 104-155 *)

\* lines 105-116: the handler itself; the callback it schedules keeps p, r,
\* t and n.  unitAtCall records the time unit selected at the call: the
\* callback does not read it.  limit bounds the setTimeout calls of a run.
Calculate(limit) ==
    /\ Idle
    /\ timersSet < limit
    /\ Len(timeouts) < MaxPending
    /\ IF Accepts(principal, rate, time)
       THEN /\ isLoading' = TRUE
            /\ calculationResult' = <<>>
            /\ timeouts' = Append(timeouts,
                   [p |-> principal, r |-> rate, t |-> time,
                    n |-> compoundFrequency, unitAtCall |-> timeUnit])
            /\ timersSet' = timersSet + 1
       ELSE UNCHANGED <<isLoading, calculationResult, timeouts, timersSet>>
    /\ UNCHANGED <<inputs, activeTooltip, store, env, renderPending, now,
                   uncaught, staleTimers>>

\* mutant of Prepend: slice(0, 10) for slice(0, 9)
PrependKeepsTen(result, items) ==
    <<result>> \o SubSeq(items, 1, Min(KeepPrevious + 1, Len(items)))

\* line 158: the array saveToHistory's update callback returns
Prepend(result, items) ==
    <<result>> \o SubSeq(items, 1, Min(KeepPrevious, Len(items)))

\* lines 117-154: the timer callback, saveToHistory (157-159) included
TimerFires ==
    /\ Idle
    /\ timeouts # <<>>
    /\ LET c == Head(timeouts)
           result == Result(c.p, c.r, c.t, c.n, timeUnit, now)
       IN  /\ calculationResult' = <<result>>
           /\ isLoading' = FALSE
           /\ IF calculationHistory.isArray
              THEN /\ calculationHistory' =
                          Array(Prepend(result, calculationHistory.items))
                   /\ effectDirty' = TRUE
                   /\ recorded' = Append(recorded, result)
                   /\ UNCHANGED uncaught
              ELSE \* history.slice is not a function
                   /\ uncaught' = "TypeError"
                   /\ UNCHANGED <<calculationHistory, effectDirty, recorded>>
    /\ timeouts' = Tail(timeouts)
    /\ staleTimers' = IF staleTimers > 0 THEN staleTimers - 1 ELSE 0
    /\ UNCHANGED <<inputs, activeTooltip, interestCalcHistory, env,
                   renderPending, timersSet, now, base>>

-----------------------------------------------------------------------------
(* reset, clearHistory and the tooltip handlers, lines 161-181 *)

\* mutant of Reset: reset leaves the displayed result
ResetKeepsResult ==
    /\ Idle
    /\ principal' = N(DefaultPrincipal)
    /\ rate' = N(DefaultRate)
    /\ time' = N(DefaultTime)
    /\ timeUnit' = "years"
    /\ compoundFrequency' = DefaultFrequency
    /\ activeTooltip' = "none"
    /\ staleTimers' = Len(timeouts)
    /\ UNCHANGED <<isLoading, calculationResult, store, env, renderPending,
                   timeouts, timersSet, now, uncaught>>

\* mutant of Reset: reset also empties the history
ResetClearsHistory ==
    /\ Idle
    /\ principal' = N(DefaultPrincipal)
    /\ rate' = N(DefaultRate)
    /\ time' = N(DefaultTime)
    /\ timeUnit' = "years"
    /\ compoundFrequency' = DefaultFrequency
    /\ calculationResult' = <<>>
    /\ activeTooltip' = "none"
    /\ staleTimers' = Len(timeouts)
    /\ calculationHistory' = Array(<<>>)
    /\ effectDirty' = TRUE
    /\ UNCHANGED <<isLoading, interestCalcHistory, base, recorded, env,
                   renderPending, timeouts, timersSet, now, uncaught>>

Reset ==
    /\ Idle
    /\ principal' = N(DefaultPrincipal)
    /\ rate' = N(DefaultRate)
    /\ time' = N(DefaultTime)
    /\ timeUnit' = "years"
    /\ compoundFrequency' = DefaultFrequency
    /\ calculationResult' = <<>>
    /\ activeTooltip' = "none"
    /\ staleTimers' = Len(timeouts)
    /\ UNCHANGED <<isLoading, store, env, renderPending, timeouts, timersSet,
                   now, uncaught>>

\* mutant of ClearHistory: clearing also drops the displayed result
ClearHistoryAndResult ==
    /\ Idle
    /\ calculationHistory' = Array(<<>>)
    /\ calculationResult' = <<>>
    /\ effectDirty' = TRUE
    /\ base' = Array(<<>>)
    /\ recorded' = <<>>
    /\ UNCHANGED <<inputs, isLoading, activeTooltip, interestCalcHistory, env,
                   renderPending, timeouts, timersSet, staleTimers, now,
                   uncaught>>

ClearHistory ==
    /\ Idle
    /\ calculationHistory' = Array(<<>>)
    /\ effectDirty' = TRUE
    /\ base' = Array(<<>>)
    /\ recorded' = <<>>
    /\ UNCHANGED <<inputs, isLoading, activeTooltip, calculationResult,
                   interestCalcHistory, env, renderPending, timeouts,
                   timersSet, staleTimers, now, uncaught>>

ShowTooltip ==
    /\ Idle
    /\ \E field \in TooltipFields : activeTooltip' = field
    /\ UNCHANGED <<inputs, isLoading, calculationResult, store, env,
                   renderPending, timeouts, timersSet, staleTimers, now, uncaught>>

HideTooltip ==
    /\ Idle
    /\ activeTooltip' = "none"
    /\ UNCHANGED <<inputs, isLoading, calculationResult, store, env,
                   renderPending, timeouts, timersSet, staleTimers, now, uncaught>>

\* lines 183-231: exportToPdf returns when there is no result (184-186);
\* otherwise it reads calculationResult into a jsPDF document and saves it, or
\* logs and alerts when that throws (227-230).  No signal is written, the
\* storage is not touched and no timer is set.
ExportToPdf ==
    /\ Idle
    /\ UNCHANGED vars

\* Date.now() advances
Tick ==
    /\ now < MaxNow
    /\ now' = now + 1
    /\ UNCHANGED <<inputs, isLoading, activeTooltip, calculationResult, store,
                   env, renderPending, timeouts, timersSet, staleTimers, uncaught>>

-----------------------------------------------------------------------------
(* Specifications *)

\* the whole component: every handler, in a session that finds one stored
\* result (kept or lost at startup, by the order of the load and the save);
\* the clock is left to the specifications of the store
Next ==
    \/ SaveEffect
    \/ LoadHistoryFromStorage
    \/ OnPrincipalChange({Null})
    \/ OnRateChange({Null})
    \/ OnTimeChange({N(0)})
    \/ OnFrequencyChange({0})
    \/ ToggleTimeUnit
    \/ Calculate(MaxTimers)
    \/ TimerFires
    \/ Reset
    \/ ClearHistory
    \/ ShowTooltip
    \/ HideTooltip
    \/ ExportToPdf

Spec == Init /\ [][Next]_vars

\* the history store: every stored item and storage behaviour at startup,
\* results that do and do not overflow
NextStore ==
    \/ SaveEffect
    \/ LoadHistoryFromStorage
    \/ OnPrincipalChange({N(900000)})
    \/ Calculate(MaxTimers)
    \/ TimerFires
    \/ ClearHistory
    \/ Tick

SpecStore == InitStore /\ [][NextStore]_vars

\* the history store under the default inputs, over many calculations
NextRecords ==
    \/ SaveEffect
    \/ LoadHistoryFromStorage
    \/ Calculate(MaxRecords)
    \/ TimerFires
    \/ ClearHistory
    \/ Tick

SpecRecords == InitStore /\ [][NextRecords]_vars

\* the interest engine on every combination of inputs
NextEngine ==
    \/ SaveEffect
    \/ LoadHistoryFromStorage
    \/ ToggleTimeUnit
    \/ Calculate(MaxTimers)
    \/ TimerFires

SpecEngine == InitEngine /\ [][NextEngine]_vars

-----------------------------------------------------------------------------
(* Operators the properties are stated with *)

Take(seq, k) == SubSeq(seq, 1, Min(k, Len(seq)))

RECURSIVE Reverse(_)
Reverse(seq) ==
    IF seq = <<>> THEN <<>> ELSE Append(Reverse(Tail(seq)), Head(seq))

Positive(x) == x.k = "num" /\ x.n > 0

\* a stored text that is a serialized history of at most 10 results
ValidStored(item) == item.t = "json" /\ item.isArray /\ Len(item.items) <= 10

\* the step is a run of the timer callback
TimerStep == Len(timeouts') < Len(timeouts)

-----------------------------------------------------------------------------
(* C1 .. C10 *)

\* C1: when the item holds a valid serialized history H at construction,
\* nothing is written over H before it is loaded, the load makes the
\* in-memory history H, and the save that follows leaves H in the item.
C1_StartupLoadsStored ==
    [][ValidStored(bootItem) =>
         /\ renderPending =>
               /\ interestCalcHistory' = bootItem
               /\ ~renderPending' => calculationHistory' = Parse(bootItem)
         /\ (  /\ ~renderPending /\ timersSet = 0
               /\ effectDirty /\ ~effectDirty'
               /\ calculationHistory = Parse(bootItem))
            => interestCalcHistory' = bootItem
       ]_vars

\* C2: the in-memory history never has more than 10 entries.
C2_HistoryAtMostTen == Len(calculationHistory.items) <= KeepPrevious + 1

\* C3: each run of saveToHistory(r) on a history of at most 10 entries
\* yields r followed by the first 9 entries it had, in order; and so the
\* history is always the 10 newest of: the results recorded since the last
\* load or clear, newest first, then the history as it was loaded or cleared.
C3_PrependAndTrim ==
    /\ [][(TimerStep /\ calculationHistory.isArray
               /\ Len(calculationHistory.items) <= KeepPrevious + 1)
          => calculationHistory'.items =
                 <<calculationResult'[1]>>
                     \o Take(calculationHistory.items, KeepPrevious)]_vars
    /\ []((calculationHistory.isArray /\ Len(base.items) <= KeepPrevious + 1)
          => calculationHistory.items =
                 Take(Reverse(recorded) \o base.items, KeepPrevious + 1))

\* twelve results recorded from an empty history: the history is R12 .. R3
C3_TwelveRecorded ==
    /\ Len(recorded) = 12
    /\ base.items = <<>>
    /\ calculationHistory.items = [i \in 1..10 |-> recorded[13 - i]]
    /\ recorded[12].timestamp # recorded[1].timestamp

\* C4: with working storage, once the writes of the last record or clear
\* are done, loadHistoryFromStorage would set the history to exactly the
\* in-memory history.
C4_LoadReproducesHistory ==
    (  /\ storageMode = "ok"
       /\ Idle
       /\ \/ recorded # <<>>
          \/ calculationHistory = Array(<<>>) /\ base = Array(<<>>))
    => Loaded(storageMode, interestCalcHistory) = <<calculationHistory>>

C6_WriteFailureIsNotFatal ==
    /\ [][(storageMode # "ok" /\ effectDirty /\ ~effectDirty')
          => /\ uncaught' = uncaught
             /\ calculationHistory' = calculationHistory
             /\ calculationResult' = calculationResult
             /\ isLoading' = isLoading
             /\ timeouts' = timeouts]_vars
    /\ []((  /\ storageMode # "ok"
             /\ calculationHistory.isArray
             /\ Len(base.items) <= KeepPrevious + 1)
          => calculationHistory.items =
                 Take(Reverse(recorded) \o base.items, KeepPrevious + 1))

\* setItem throws, the stored history was loaded, then cleared, and two
\* results were recorded after that
C6_RecordsAfterFailedWrites ==
    /\ storageMode = "quota"
    /\ Idle
    /\ Len(bootItem.items) = 1
    /\ interestCalcHistory = bootItem
    /\ base = Array(<<>>)
    /\ Len(recorded) = 2
    /\ calculationHistory = Array(Reverse(recorded))
    /\ uncaught = "none"

\* C7: when the item is absent, empty, unparseable or parses to something
\* that is no array of results, the load raises nothing and leaves the
\* history the empty array, and records and clears go on working.
C7_CorruptedLoadsEmpty ==
    (bootItem.t # "json" \/ ~bootItem.isArray)
    => /\ calculationHistory.isArray
       /\ uncaught = "none"
       /\ (~renderPending /\ timersSet = 0)
              => calculationHistory = Array(<<>>)

\* C8: calculate goes on (schedules the computation, sets isLoading,
\* clears the result) exactly when principal, rate and time are all numbers
\* greater than 0, whatever the time unit and the frequency; with any other
\* inputs it schedules nothing and isLoading, the result and the history
\* stay as constructed.
C8_AcceptsIffPositive ==
    LET valid == Positive(principal) /\ Positive(rate) /\ Positive(time)
    IN  /\ ~valid =>
              /\ timeouts = <<>>
              /\ timersSet = 0
              /\ isLoading = FALSE
              /\ calculationResult = <<>>
              /\ calculationHistory = Array(<<>>)
        /\ (valid /\ Idle /\ timersSet < MaxTimers /\ Len(timeouts) < MaxPending)
              => ENABLED (/\ Calculate(MaxTimers)
                          /\ Len(timeouts') = Len(timeouts) + 1
                          /\ isLoading'
                          /\ calculationResult' = <<>>)

\* a calculation in months with frequency 0 was accepted
C8_AcceptedMonthsSimple ==
    /\ principal = N(1000) /\ rate = N(12) /\ time = N(6)
    /\ timeUnit = "months" /\ compoundFrequency = 0
    /\ Len(timeouts) = 1
    /\ isLoading
    /\ calculationResult = <<>>

\* C9: the result the timer callback assembles has the principal, rate,
\* time, frequency and time unit the inputs had when calculate was called.
C9_ResultEchoesInputsAtCall ==
    [][TimerStep =>
         LET c == Head(timeouts)
             res == calculationResult'[1]
         IN  /\ res.principal = c.p
             /\ res.rate = c.r
             /\ res.time = c.t
             /\ res.compoundFrequency = c.n
             /\ res.timeUnit = c.unitAtCall]_vars

\* C10: in every result, simpleInterest = principal * (rate / 100) *
\* timeInYears with timeInYears = time / 12 for months and time for years,
\* totalSimple = principal + simpleInterest, and with frequency 0 the
\* compound interest is 0 and the compound total is totalSimple.
SimpleLaw(res) ==
    LET timeInYears == IF res.timeUnit = "months" THEN Div(res.time, N(12))
                       ELSE res.time
        interest == Mul(Mul(res.principal, Div(res.rate, N(100))), timeInYears)
    IN  /\ res.simpleInterest = interest
        /\ res.totalSimple = Add(res.principal, interest)
        /\ res.compoundFrequency = 0 =>
              /\ res.compoundDetail.interest = N(0)
              /\ res.compoundDetail.total = res.totalSimple

C10_SimpleInterestAndTotal ==
    /\ \A i \in 1..Len(calculationResult) : SimpleLaw(calculationResult[i])
    /\ \A i \in 1..Len(calculationHistory.items) :
           SimpleLaw(calculationHistory.items[i])

\* principal 1000, rate 12, time 6 months, frequency 0: interest 60,
\* total 1060, compound detail {0, 1060}
C10_SixMonthsSimple ==
    /\ calculationResult # <<>>
    /\ calculationResult[1].principal = N(1000)
    /\ calculationResult[1].rate = N(12)
    /\ calculationResult[1].time = N(6)
    /\ calculationResult[1].timeUnit = "months"
    /\ calculationResult[1].simpleInterest = N(60)
    /\ calculationResult[1].totalSimple = N(1060)
    /\ calculationResult[1].compoundDetail = [interest |-> N(0), total |-> N(1060)]
    /\ calculationHistory.items = calculationResult

-----------------------------------------------------------------------------
(* C11 .. C17 *)

\* C11: in every result with frequency n > 0, the compound total is
\* principal * Math.pow(1 + (rate / 100) / n, n * timeInYears), with
\* timeInYears = time / 12 for months and time for years, and the compound
\* interest is that total minus the principal.
CompoundLaw(res) ==
    LET timeInYears == IF res.timeUnit = "months" THEN Div(res.time, N(12))
                       ELSE res.time
        n == N(res.compoundFrequency)
        total == Mul(res.principal,
                     Pow(Add(N(1), Div(Div(res.rate, N(100)), n)),
                         Mul(n, timeInYears)))
    IN  res.compoundFrequency > 0 =>
            /\ res.compoundDetail.total = total
            /\ res.compoundDetail.interest = Sub(total, res.principal)

C11_CompoundTotalAndInterest ==
    /\ \A i \in 1..Len(calculationResult) : CompoundLaw(calculationResult[i])
    /\ \A i \in 1..Len(calculationHistory.items) :
           CompoundLaw(calculationHistory.items[i])

\* principal 1000, rate 12, 6 months, compounded quarterly:
\* total = 1000 * Math.pow(1 + 0.12 / 4, 4 * 0.5) = 1000 * Math.pow(1.03, 2)
C11_SixMonthsQuarterly ==
    /\ calculationResult # <<>>
    /\ calculationResult[1].principal = N(1000)
    /\ calculationResult[1].timeUnit = "months"
    /\ calculationResult[1].compoundFrequency = 4
    /\ calculationResult[1].compoundDetail.total =
           [k |-> "mul", l |-> N(1000),
            r |-> [k |-> "pow", l |-> Num(103, 100), r |-> N(2)]]
    /\ calculationHistory.items = calculationResult

\* C12: there is no cancellation: a pending callback leaves the timer queue
\* only by running, and when it runs it sets calculationResult to the result
\* of the inputs its calculate captured and prepends that result to the
\* history, once, whatever was invoked while it was pending.
C12_EveryAcceptedCompletesOnce ==
    [][/\ \/ timeouts' = timeouts
          \/ /\ Len(timeouts') = Len(timeouts) + 1
             /\ SubSeq(timeouts', 1, Len(timeouts)) = timeouts
          \/ timeouts' = Tail(timeouts)
       /\ TimerStep =>
             LET c == Head(timeouts)
             IN  /\ Len(calculationResult') = 1
                 /\ calculationResult'[1].principal = c.p
                 /\ calculationResult'[1].rate = c.r
                 /\ calculationResult'[1].time = c.t
                 /\ calculationResult'[1].compoundFrequency = c.n
                 /\ calculationHistory'.items =
                        <<calculationResult'[1]>> \o
                        Take(calculationHistory.items, KeepPrevious)]_vars

\* C13: once the startup load has run, the history changes only when a timer
\* callback prepends its result (keeping 9 previous entries) or when
\* clearHistory empties it; a step that changes an input, the tooltip, sets a
\* timer or nulls the result (reset, the input and tooltip handlers, an
\* accepted calculate) leaves the history as it was, and so do exportToPdf and
\* a rejected calculate, which change nothing.
C13_OnlyRecordAndClearMutate ==
    [][~renderPending =>
          /\ calculationHistory' # calculationHistory =>
                \/ /\ TimerStep
                   /\ calculationHistory' =
                          Array(<<calculationResult'[1]>> \o
                                Take(calculationHistory.items, KeepPrevious))
                \/ /\ ~TimerStep
                   /\ calculationHistory' = Array(<<>>)
                   /\ UNCHANGED <<inputs, activeTooltip, calculationResult,
                                  timeouts>>
          /\ (\/ inputs' # inputs
              \/ activeTooltip' # activeTooltip
              \/ Len(timeouts') > Len(timeouts)
              \/ (calculationResult # <<>> /\ calculationResult' = <<>>))
             => calculationHistory' = calculationHistory]_vars

\* a result was recorded, then reset ran (the result is null with no timer
\* pending), an input and the tooltip were changed: the history still holds
\* the recorded results on top of the loaded ones
C13_HistoryKeptThroughHandlers ==
    /\ Idle
    /\ recorded # <<>>
    /\ timeouts = <<>>
    /\ calculationResult = <<>>
    /\ principal = Null
    /\ timeUnit = "months"
    /\ activeTooltip = "principal"
    /\ calculationHistory = Array(Reverse(recorded) \o base.items)

\* the step is a handler that schedules the save effect without running a
\* timer callback: clearHistory
ClearStep == Idle /\ effectDirty' /\ Len(timeouts') = Len(timeouts)

\* C14: clearHistory leaves the history an empty array whatever it held (an
\* array of any length or the value of a stored non-array), and changes
\* nothing else: the inputs, isLoading, the tooltip, calculationResult, the
\* pending timers and the stored item are as before.
C14_ClearEmptiesOnlyHistory ==
    [][ClearStep =>
          /\ calculationHistory' = Array(<<>>)
          /\ UNCHANGED <<inputs, isLoading, activeTooltip, calculationResult,
                         timeouts, interestCalcHistory>>]_vars

\* clearHistory has just run on a history of 10 results (the item still holds
\* them) while a result is displayed
C14_ClearedTenWithResult ==
    /\ ~renderPending
    /\ effectDirty
    /\ calculationHistory = Array(<<>>)
    /\ calculationResult # <<>>
    /\ interestCalcHistory.t = "json"
    /\ Len(interestCalcHistory.items) = KeepPrevious + 1

\* C15: the results recorded in this session that are in the history have
\* pairwise different timestamps.
C15_SessionTimestampsDistinct ==
    \A i, j \in 1..Min(Len(recorded), Len(calculationHistory.items)) :
        i # j => calculationHistory.items[i].timestamp #
                 calculationHistory.items[j].timestamp

\* C16: isLoading is true exactly while a timer callback of an accepted
\* calculate is pending.
C16_LoadingIffInFlight == isLoading <=> (timeouts # <<>>)

\* C17 as stated: the callback of a calculate invoked before the last reset
\* does not make a result appear.
C17_StaleCallbackSetsNoResult ==
    [][(TimerStep /\ staleTimers > 0) => calculationResult' = <<>>]_vars

\* C17, amended: reset leaves calculationResult null (seen on the resets that
\* find callbacks pending), and a null calculationResult becomes a result only
\* by a run of a timer callback, whether its calculate was invoked before or
\* after the reset.
C17_NullUntilSomeCallback ==
    [][/\ staleTimers' > staleTimers => calculationResult' = <<>>
       /\ (calculationResult = <<>> /\ calculationResult' # <<>>) => TimerStep
      ]_vars

\* the only calculate of the session was invoked with frequency 0, reset ran
\* while it was in flight (the frequency is 1 again), and its result is shown
C17_ResultOfEarlierCalculateShown ==
    /\ timersSet = 1
    /\ timeouts = <<>>
    /\ compoundFrequency = DefaultFrequency
    /\ calculationResult # <<>>
    /\ calculationResult[1].compoundFrequency = 0

====
